---- MODULE Spec2Model ----
(***************************************************************************)
(* Model of the club-digital match scrapers:                               *)
(*   src/src/lib/scraper.js  fetchWithRetry, getUpcomingGames,             *)
(*                           getLastResults, getAllGames (axios + cheerio) *)
(*   src/scraper.js          scrapePartidos, guardarPartidosPorEquipo,     *)
(*                           main (puppeteer, one JSON file per team)      *)
(* Text is a sequence of one-character strings, so that trimming, case     *)
(* folding, substring search and the id normalisation are computed the way *)
(* the JavaScript computes them.                                           *)
(***************************************************************************)
EXTENDS Integers, Sequences, FiniteSets, TLC

VARIABLES
    fpc,        \* fetchWithRetry: "idle" | "loop" | "returned" | "thrown"
    attempt,    \* fetchWithRetry: the for-loop counter
    maxRetries, \* fetchWithRetry: the maxRetries argument
    requests,   \* fetchWithRetry: the requests issued, in order
    waits,      \* fetchWithRetry: the delays awaited, in order
    fetchErr,   \* fetchWithRetry: the error thrown to the caller, or NoError
    libFn,      \* lib: the exported function called, or "none"
    lpc,        \* lib: "idle" | "fetching" | "resolved"
    libPage,    \* lib: the rows of the downloaded page the function walks
    libOut,     \* lib: the array the function resolved to
    libErr,     \* lib: what the function's catch block caught: "none" |
                \*      "fetch" | "parse"
    pc,         \* main: "idle" | "start" | "launched" | "configured" |
                \*       "loaded" | "waited" | "scraped" | "exited"
    runs,       \* number of runs of `node scraper.js` started so far
    browser,    \* main: "none" | "open" | "closed" (the puppeteer browser)
    webPage,    \* main: the rows of the federation page this run evaluated
    partidos,   \* main: the array scrapePartidos returned
    files,      \* src/data/equipos: file name -> the array written in it
    exitCode,   \* main: -1 while running, else the exit code of the process
    mainError,  \* main: what threw in this run: "none" | "launch" | "scrape" |
                \*       "write"
    paginaAnterior \* <<the page of the run before this one>> when that run
                \*       saved its records, else <<>>

fetchVars == <<fpc, attempt, maxRetries, requests, waits, fetchErr>>

libVars == <<libFn, lpc, libPage, libOut, libErr>>

mainVars == <<pc, runs, browser, webPage, partidos, files, exitCode, mainError,
             paginaAnterior>>

vars == <<fpc, attempt, maxRetries, requests, waits, fetchErr,
          libFn, lpc, libPage, libOut, libErr,
          pc, runs, browser, webPage, partidos, files, exitCode, mainError,
          paginaAnterior>>

-----------------------------------------------------------------------------
(* Bounds of the model *)

\* largest maxRetries argument tried
MaxRetriesArg == 3

\* most rows in a page handed to getUpcomingGames, getLastResults, getAllGames
MaxLibRows == 3

\* most table rows in the federation page one run of scraper.js evaluates
MaxFilas == 2

\* most runs of scraper.js
MaxRuns == 2

\* the most rows of a page in the runs that only save (SpecGuardar)
MaxOrden == 3

-----------------------------------------------------------------------------
(* JavaScript text operations on sequences of characters.  An accented    *)
(* letter is the character made of the letter and an apostrophe ("E'" is   *)
(* E with acute accent); "<br>" is the line-break element of innerHTML.    *)

LowerLetters ==
    <<"a","b","c","d","e","f","g","h","i","j","k","l","m",
      "n","o","p","q","r","s","t","u","v","w","x","y","z">>

UpperLetters ==
    <<"A","B","C","D","E","F","G","H","I","J","K","L","M",
      "N","O","P","Q","R","S","T","U","V","W","X","Y","Z">>

DigitChars == <<"0","1","2","3","4","5","6","7","8","9">>

Range(s) == {s[i] : i \in 1..Len(s)}

Accent(c) == c \o "'"

\* String.prototype.toLowerCase, per character
LowerMap ==
    [c \in Range(UpperLetters) \cup {Accent(u) : u \in Range(UpperLetters)} |->
        LET i == CHOOSE j \in 1..26 : UpperLetters[j] = c \/ Accent(UpperLetters[j]) = c
        IN  IF c = UpperLetters[i] THEN LowerLetters[i] ELSE Accent(LowerLetters[i])]

\* String.prototype.toUpperCase, per character
UpperMap ==
    [c \in Range(LowerLetters) \cup {Accent(l) : l \in Range(LowerLetters)} |->
        LET i == CHOOSE j \in 1..26 : LowerLetters[j] = c \/ Accent(LowerLetters[j]) = c
        IN  IF c = LowerLetters[i] THEN UpperLetters[i] ELSE Accent(UpperLetters[i])]

\* normalize('NFD') followed by replace(/[\u0300-\u036f]/g, ''), per character
BaseMap ==
    [c \in {Accent(x) : x \in Range(UpperLetters) \cup Range(LowerLetters)} |->
        CHOOSE x \in Range(UpperLetters) \cup Range(LowerLetters) : Accent(x) = c]

toLowerCase(s) == [i \in 1..Len(s) |-> IF s[i] \in DOMAIN LowerMap THEN LowerMap[s[i]] ELSE s[i]]

toUpperCase(s) == [i \in 1..Len(s) |-> IF s[i] \in DOMAIN UpperMap THEN UpperMap[s[i]] ELSE s[i]]

StripDiacritics(s) == [i \in 1..Len(s) |-> IF s[i] \in DOMAIN BaseMap THEN BaseMap[s[i]] ELSE s[i]]

\* the characters \s matches and trim() removes
IsSpace(c) == c \in {" ", "\t", "\n"}

\* whether s contains pat when letter case is ignored: both upper-cased
includes_AnyCase(s, pat) ==
    \E i \in 1..(Len(s) - Len(pat) + 1) :
        toUpperCase(SubSeq(s, i, i + Len(pat) - 1)) = toUpperCase(pat)

\* String.prototype.includes
includes(s, pat) ==
    \E i \in 1..(Len(s) - Len(pat) + 1) : SubSeq(s, i, i + Len(pat) - 1) = pat

\* String.prototype.trim
trim(s) ==
    LET keep == {i \in 1..Len(s) : ~IsSpace(s[i])}
    IN  IF keep = {} THEN <<>>
        ELSE SubSeq(s, CHOOSE i \in keep : \A j \in keep : i <= j,
                       CHOOSE i \in keep : \A j \in keep : i >= j)

RECURSIVE DropSpaces(_)
DropSpaces(s) ==
    IF s # <<>> /\ IsSpace(Head(s)) THEN DropSpaces(Tail(s)) ELSE s

\* replace(/\s+/g, rep)
RECURSIVE ReplaceSpaceRuns(_, _)
ReplaceSpaceRuns(s, rep) ==
    IF s = <<>> THEN <<>>
    ELSE IF IsSpace(Head(s)) THEN rep \o ReplaceSpaceRuns(DropSpaces(s), rep)
    ELSE <<Head(s)>> \o ReplaceSpaceRuns(Tail(s), rep)

\* replace(/pat/g, '') for a literal pattern
RECURSIVE RemoveAll(_, _)
RemoveAll(s, pat) ==
    IF Len(s) < Len(pat) THEN s
    ELSE IF SubSeq(s, 1, Len(pat)) = pat
         THEN RemoveAll(SubSeq(s, Len(pat) + 1, Len(s)), pat)
         ELSE <<Head(s)>> \o RemoveAll(Tail(s), pat)

\* String.prototype.split on a one-character separator
RECURSIVE split(_, _)
split(s, sep) ==
    IF \A i \in 1..Len(s) : s[i] # sep THEN <<s>>
    ELSE LET k == CHOOSE i \in 1..Len(s) : s[i] = sep /\ \A j \in 1..(i - 1) : s[j] # sep
         IN  <<SubSeq(s, 1, k - 1)>> \o split(SubSeq(s, k + 1, Len(s)), sep)

IsDigit(c) == c \in Range(DigitChars)

DigitValue(c) == (CHOOSE i \in 1..10 : DigitChars[i] = c) - 1

\* the value of a non-empty run of digits
RECURSIVE DigitsValue(_)
DigitsValue(ds) ==
    IF ds = <<>> THEN 0
    ELSE 10 * DigitsValue(SubSeq(ds, 1, Len(ds) - 1)) + DigitValue(ds[Len(ds)])

\* String(n) for an integer n
RECURSIVE NatToText(_)
NatToText(n) ==
    IF n < 10 THEN <<DigitChars[n + 1]>>
    ELSE NatToText(n \div 10) \o <<DigitChars[(n % 10) + 1]>>

IntToText(n) == IF n < 0 THEN <<"-">> \o NatToText(-n) ELSE NatToText(n)

NaN == [nan |-> TRUE, val |-> 0]

Num(n) == [nan |-> FALSE, val |-> n]

\* the longest prefix of s made of digits
RECURSIVE DigitPrefix(_)
DigitPrefix(s) ==
    IF s # <<>> /\ IsDigit(Head(s)) THEN <<Head(s)>> \o DigitPrefix(Tail(s)) ELSE <<>>

\* parseInt(s): leading white space, an optional sign, then the digits
parseInt(s) ==
    LET t == DropSpaces(s)
        signed == t # <<>> /\ Head(t) \in {"-", "+"}
        ds == DigitPrefix(IF signed THEN Tail(t) ELSE t)
    IN  IF ds = <<>> THEN NaN
        ELSE Num(IF signed /\ Head(t) = "-" THEN -DigitsValue(ds) ELSE DigitsValue(ds))

\* Number(s): white space trimmed, '' is 0, otherwise a whole decimal literal
Number(s) ==
    LET t == trim(s)
    IN  IF t = <<>> THEN Num(0)
        ELSE IF \A i \in 1..Len(t) : IsDigit(t[i]) THEN Num(DigitsValue(t))
        ELSE NaN

-----------------------------------------------------------------------------
(* HTML as the parsers see it.  A cell is its inner HTML: characters and   *)
(* element tags, each tag one item of the sequence.  A row is the sequence *)
(* of its td cells.                                                        *)

\* the JavaScript null; no text equals it, since every item of a text is a
\* single character or a tag
Null == <<"null">>

BR == "<br>"

IsTag(c) == c \in {BR, "<strong>", "</strong>"}

\* .text() / textContent: the characters without the tags
text(cell) == SelectSeq(cell, LAMBDA c : ~IsTag(c))

\* .replace(/<[^>]*>/g, '')
StripTags(s) == SelectSeq(s, LAMBDA c : ~IsTag(c))

\* html.split(/<br\s*\/?>/i).map(p => p.replace(/<[^>]*>/g, '').trim())
\*     .filter(p => p && p.length > 0)
BrParts(html) ==
    SelectSeq([i \in 1..Len(split(html, BR)) |-> trim(StripTags(split(html, BR)[i]))],
              LAMBDA p : p # <<>>)

\* parts[i] || dflt
PartOr(parts, i, dflt) == IF i <= Len(parts) THEN parts[i] ELSE dflt

\* `${a}-${b}-${c}` ...
RECURSIVE Join(_, _)
Join(parts, sep) ==
    IF Len(parts) = 0 THEN <<>>
    ELSE IF Len(parts) = 1 THEN parts[1]
    ELSE parts[1] \o sep \o Join(Tail(parts), sep)

RECURSIVE FoldLeft(_, _, _)
FoldLeft(Op(_, _), acc, seq) ==
    IF seq = <<>> THEN acc ELSE FoldLeft(Op, Op(acc, Head(seq)), Tail(seq))

-----------------------------------------------------------------------------
(* getUpcomingGames, getLastResults, getAllGames: src/src/lib/scraper.js   *)

\* 'ADESA', the text the three functions look for in upper-cased names
LibClubText == <<"A","D","E","S","A">>

NA == <<"N","/","A">>

\* name.toUpperCase().includes('ADESA')
LibIsClub(name) == includes(toUpperCase(name), LibClubText)

EmptyAcc == [seen |-> {}, out |-> <<>>]

\* a repeated key is forgotten again, so a third copy gets through (mutant)
KeepFirst_Forgets(acc, key, recs) ==
    IF key \in acc.seen
    THEN [seen |-> acc.seen \ {key}, out |-> acc.out]
    ELSE [seen |-> acc.seen \cup {key}, out |-> acc.out \o recs]

\* if (!seenGames.has(gameKey)) { seenGames.add(gameKey); push(...recs) }
KeepFirst(acc, key, recs) ==
    IF key \in acc.seen
    THEN acc
    ELSE [seen |-> acc.seen \cup {key}, out |-> acc.out \o recs]

\* const gameKey = `${categoryText}-${local}-${visitante}-${fecha}`
AllGamesKey(g) == Join(<<g.categoria, g.local, g.visitante, g.fecha>>, <<"-">>)

\* const gameKey = `${fecha}-${localName}-${visitorName}`
FechaTeamsKey(g) == Join(<<g.fecha, g.localName, g.visitorName>>, <<"-">>)

\* marcadorLocal || null
OrNull(t) == IF t = <<>> THEN Null ELSE t

\* one tbody tr under a category header: lines 303-361
AllGamesRow(acc, fila) ==
    LET cells == fila.celdas
        categoryText == trim(text(fila.h4))
        local == trim(text(cells[1]))
        visitante == trim(text(cells[4]))
        parts == BrParts(cells[5])
        game == [categoria |-> categoryText,
                 local |-> local,
                 visitante |-> visitante,
                 marcadorLocal |-> OrNull(trim(text(cells[2]))),
                 marcadorVisitante |-> OrNull(trim(text(cells[3]))),
                 fecha |-> PartOr(parts, 1, <<>>),
                 hora |-> PartOr(parts, 2, <<>>),
                 pabellon |-> IF Len(cells) >= 6 THEN trim(text(cells[6])) ELSE <<>>,
                 isAdesaLocal |-> LibIsClub(local)]
    IN  IF categoryText = <<>> THEN acc
        ELSE IF Len(cells) < 5 THEN acc
        ELSE IF ~LibIsClub(local) /\ ~LibIsClub(visitante) THEN acc
        ELSE KeepFirst(acc, AllGamesKey(game), <<game>>)

\* a parse that ends at the first row of fewer than five cells (mutant)
ParseAllGames_StopsAtShortRow(page) ==
    LET cortas == {i \in 1..Len(page) : Len(page[i].celdas) < 5}
        hasta == IF cortas = {} THEN Len(page)
                 ELSE (CHOOSE i \in cortas : \A j \in cortas : i <= j) - 1
    IN  FoldLeft(AllGamesRow, EmptyAcc, SubSeq(page, 1, hasta)).out

\* the parse of getAllGames: every row of every table under every header
ParseAllGames(page) == FoldLeft(AllGamesRow, EmptyAcc, page).out

\* one row of a capa_proximos container: lines 118-175
UpcomingRow(acc, fila) ==
    LET cells == fila.celdas
        teamParts == BrParts(cells[2])
        localName == PartOr(teamParts, 1, NA)
        visitorName == PartOr(teamParts, 2, NA)
        game == [categoria |-> trim(split(cells[1], BR)[1]),
                 localName |-> localName,
                 visitorName |-> visitorName,
                 fecha |-> trim(text(cells[3])),
                 campo |-> trim(text(cells[4])),
                 isAdesaLocal |-> LibIsClub(localName)]
    IN  IF Len(cells) < 4 THEN acc
        ELSE IF LibIsClub(localName) \/ LibIsClub(visitorName)
             THEN KeepFirst(acc, FechaTeamsKey(game), <<game>>)
             ELSE acc

\* the parse of getUpcomingGames
ParseUpcoming(page) == FoldLeft(UpcomingRow, EmptyAcc, page).out

\* one tr.fila_color_tabla of a results table: lines 211-260
ResultsRow(acc, fila) ==
    LET cells == fila.celdas
        localName == trim(text(cells[3]))
        visitorName == trim(text(cells[4]))
        localPoints == trim(text(cells[2]))
        visitorPoints == trim(text(cells[5]))
        isAdesaLocal == LibIsClub(localName)
        game == [fecha |-> trim(text(cells[1])),
                 localName |-> localName,
                 localPoints |-> localPoints,
                 visitorName |-> visitorName,
                 visitorPoints |-> visitorPoints,
                 isAdesaWinner |-> IF isAdesaLocal THEN fila.localWon ELSE fila.visitorWon,
                 isAdesaLocal |-> isAdesaLocal]
        key == FechaTeamsKey(game)
    IN  IF Len(cells) < 5 THEN acc
        ELSE IF localPoints = <<>> \/ visitorPoints = <<>> THEN acc
        ELSE KeepFirst(acc, key,
                       IF isAdesaLocal \/ LibIsClub(visitorName) THEN <<game>> ELSE <<>>)

\* the parse of getLastResults
ParseResults(page) == FoldLeft(ResultsRow, EmptyAcc, page).out

-----------------------------------------------------------------------------
(* fetchWithRetry, src/src/lib/scraper.js:45-98 *)

NoError == "none"

\* default value of the maxRetries parameter
DefaultMaxRetries == 3

\* delay(2000 * attempt) after a 403 and in the catch block
BackoffErrorMs == 2000

\* delay(1000 * attempt) after a status that is none of 200, 403, 404, 5xx
BackoffOtherMs == 1000

\* the only request the function issues: axios.get(url, ...)
AxiosGet(n) == [via |-> "axios", attempt |-> n, status |-> "pending"]

\* the for-loop condition with one attempt too many (mutant)
LoopContinues_OneMore(a, m) == a <= m + 1

\* for (let attempt = 1; attempt <= maxRetries; attempt++)
LoopContinues(a, m) == a <= m

\* the request of this iteration, answered with `status`
Answered(status) == Append(requests, [AxiosGet(attempt) EXCEPT !.status = status])

\* attempt++ and the loop test; falling out of the loop reaches the final throw
NextIteration ==
    /\ attempt' = attempt + 1
    /\ IF LoopContinues(attempt + 1, maxRetries)
       THEN /\ fpc' = "loop"
            /\ fetchErr' = fetchErr
       ELSE /\ fpc' = "thrown"
            /\ fetchErr' = "exhausted"

\* the catch block rethrowing on every attempt (mutant)
Catch_AlwaysThrows(error) ==
    /\ waits' = waits
    /\ attempt' = attempt
    /\ fpc' = "thrown"
    /\ fetchErr' = error

\* the catch block: wait and go on, or rethrow on the last attempt
Catch(error) ==
    IF attempt < maxRetries
    THEN /\ waits' = Append(waits, BackoffErrorMs * attempt)
         /\ NextIteration
    ELSE /\ waits' = waits
         /\ attempt' = attempt
         /\ fpc' = "thrown"
         /\ fetchErr' = error

InLoop == fpc = "loop" /\ LoopContinues(attempt, maxRetries)

\* status 200 handled like any other status: warn, wait, go on (mutant)
Resp200_Retries ==
    /\ InLoop
    /\ requests' = Answered("200")
    /\ waits' = IF attempt < maxRetries
                THEN Append(waits, BackoffOtherMs * attempt)
                ELSE waits
    /\ NextIteration
    /\ UNCHANGED <<maxRetries, libVars, mainVars>>

\* if (response.status === 200) return response
Resp200 ==
    /\ InLoop
    /\ requests' = Answered("200")
    /\ fpc' = "returned"
    /\ UNCHANGED <<attempt, maxRetries, waits, fetchErr, libVars, mainVars>>

Resp403 ==
    /\ InLoop
    /\ requests' = Answered("403")
    /\ waits' = IF attempt < maxRetries
                THEN Append(waits, BackoffErrorMs * attempt)
                ELSE waits
    /\ NextIteration
    /\ UNCHANGED <<maxRetries, libVars, mainVars>>

Resp404 ==
    /\ InLoop
    /\ requests' = Answered("404")
    /\ Catch("404")
    /\ UNCHANGED <<maxRetries, libVars, mainVars>>

\* validateStatus rejects status >= 500, so axios.get itself throws
Resp5xx ==
    /\ InLoop
    /\ requests' = Answered("5xx")
    /\ Catch("5xx")
    /\ UNCHANGED <<maxRetries, libVars, mainVars>>

\* any other status below 500 (204, 301, 429, ...)
RespOther ==
    /\ InLoop
    /\ requests' = Answered("other")
    /\ waits' = IF attempt < maxRetries
                THEN Append(waits, BackoffOtherMs * attempt)
                ELSE waits
    /\ NextIteration
    /\ UNCHANGED <<maxRetries, libVars, mainVars>>

\* timeout (20000 ms) or network failure: axios.get throws
RespNetworkError ==
    /\ InLoop
    /\ requests' = Answered("error")
    /\ Catch("network")
    /\ UNCHANGED <<maxRetries, libVars, mainVars>>

FetchStep ==
    \/ Resp200
    \/ Resp403
    \/ Resp404
    \/ Resp5xx
    \/ RespOther
    \/ RespNetworkError

FetchInit ==
    /\ fpc = "loop"
    /\ attempt = 1
    /\ requests = <<>>
    /\ waits = <<>>
    /\ fetchErr = NoError

LibIdle ==
    /\ libFn = "none"
    /\ lpc = "idle"
    /\ libPage = <<>>
    /\ libOut = <<>>
    /\ libErr = "none"

\* before the first run of scraper.js: no team file has been written
MainIdle ==
    /\ pc = "idle"
    /\ runs = 0
    /\ browser = "none"
    /\ webPage = <<>>
    /\ partidos = <<>>
    /\ files = <<>>
    /\ exitCode = -1
    /\ mainError = "none"
    /\ paginaAnterior = <<>>

\* fetchWithRetry(url, maxRetries) called with every small maxRetries
InitFetch ==
    /\ FetchInit
    /\ maxRetries \in 1..MaxRetriesArg
    /\ LibIdle
    /\ MainIdle

NextFetch == FetchStep

SpecFetch == InitFetch /\ [][NextFetch]_vars

-----------------------------------------------------------------------------
(* The pages the lib functions are given *)

TxtADESA80 == <<"A","D","E","S","A"," ","8","0">>
TxtAdesa80 == <<"A","d","e","s","a"," ","8","0">>
TxtRota == <<"C","B"," ","R","o","t","a">>
TxtUCA == <<"U","C","A">>
TxtCadete == <<"C","a","d","e","t","e">>
TxtJunior == <<"J","u","n","i","o","r">>
TxtD1 == <<"1","4","/","0","2","/","2","0","2","6">>
TxtD2 == <<"2","1","/","0","2","/","2","0","2","6">>
TxtHora == <<"1","8",":","0","0">>
Txt85 == <<"8","5">>
Txt78 == <<"7","8">>
TxtPab == <<"P","a","b">>

Strong(s) == <<"<strong>">> \o s \o <<"</strong>">>

\* a six-cell calendar row: local, points, points, visitor, date/time, venue
CalRow(local, pl, pv, visitante, fechaHora) ==
    <<local, pl, pv, visitante, Strong(fechaHora), <<" ">> \o TxtPab>>

AllGamesFilas ==
    { [h4 |-> TxtCadete, celdas |-> CalRow(TxtADESA80, Txt85, Txt78, TxtRota, TxtD1 \o <<BR>> \o TxtHora)],
      [h4 |-> TxtCadete, celdas |-> CalRow(TxtADESA80, <<>>, <<>>, TxtRota, TxtD1)],
      [h4 |-> TxtCadete, celdas |-> CalRow(TxtRota, <<>>, <<>>, TxtAdesa80, TxtD2 \o <<BR>>)],
      [h4 |-> TxtCadete, celdas |-> CalRow(TxtRota, Txt78, Txt85, TxtUCA, TxtD1)],
      [h4 |-> TxtJunior, celdas |-> CalRow(TxtADESA80, <<>>, <<>>, TxtRota, TxtD1)],
      [h4 |-> TxtCadete, celdas |-> <<TxtADESA80, Txt85, Txt78, TxtRota>>],
      [h4 |-> <<" ">>, celdas |-> CalRow(TxtADESA80, Txt85, Txt78, TxtRota, TxtD2)] }

\* a four-cell row of upcoming games: category, encounter, date, venue
UpcomingFilas ==
    { [celdas |-> <<TxtCadete \o <<BR>> \o TxtRota, TxtADESA80 \o <<BR>> \o TxtRota, TxtD1, TxtPab>>],
      [celdas |-> <<TxtJunior, Strong(TxtADESA80) \o <<BR>> \o TxtRota, TxtD1, TxtPab>>],
      [celdas |-> <<TxtCadete, TxtRota \o <<BR>> \o TxtAdesa80, TxtD2, TxtPab>>],
      [celdas |-> <<TxtCadete, TxtRota \o <<BR>> \o TxtUCA, TxtD1, TxtPab>>],
      [celdas |-> <<TxtCadete, TxtADESA80, TxtD1, TxtPab>>],
      [celdas |-> <<TxtCadete, TxtADESA80 \o <<BR>> \o TxtRota, TxtD1>>] }

\* a five-cell results row: date, points, local, visitor, points
ResultsFilas ==
    { [celdas |-> <<TxtD1, Txt85, TxtADESA80, TxtRota, Txt78>>, localWon |-> TRUE, visitorWon |-> FALSE],
      [celdas |-> <<TxtD1, Txt78, TxtADESA80, TxtRota, Txt85>>, localWon |-> FALSE, visitorWon |-> TRUE],
      [celdas |-> <<TxtD1, <<>>, TxtADESA80, TxtRota, <<>>>>, localWon |-> FALSE, visitorWon |-> FALSE],
      [celdas |-> <<TxtD2, Txt78, TxtRota, TxtAdesa80, Txt85>>, localWon |-> FALSE, visitorWon |-> TRUE],
      [celdas |-> <<TxtD1, Txt85, TxtRota, TxtUCA, Txt78>>, localWon |-> TRUE, visitorWon |-> FALSE],
      [celdas |-> <<TxtD1, Txt85, TxtADESA80, TxtRota>>, localWon |-> TRUE, visitorWon |-> FALSE] }

\* every sequence of at most n members of S
SeqsUpTo(S, n) == UNION {[1..k -> S] : k \in 0..n}

LibPages(fn) ==
    SeqsUpTo(CASE fn = "getAllGames" -> AllGamesFilas
               [] fn = "getUpcomingGames" -> UpcomingFilas
               [] fn = "getLastResults" -> ResultsFilas,
             MaxLibRows)

LibFns == {"getUpcomingGames", "getLastResults", "getAllGames"}

LibParse(fn, page) ==
    CASE fn = "getAllGames" -> ParseAllGames(page)
      [] fn = "getUpcomingGames" -> ParseUpcoming(page)
      [] fn = "getLastResults" -> ParseResults(page)

\* the try block after fetchWithRetry returned: cheerio.load and the row loops
LibResolve ==
    /\ lpc = "fetching"
    /\ fpc = "returned"
    /\ \E page \in LibPages(libFn) :
          /\ libPage' = page
          /\ libOut' = LibParse(libFn, page)
    /\ lpc' = "resolved"
    /\ UNCHANGED <<libFn, libErr, fetchVars, mainVars>>

\* cheerio.load or the first selector throws before any row is walked:
\* catch (error) { ...; return []; }
LibLoadThrows ==
    /\ lpc = "fetching"
    /\ fpc = "returned"
    /\ libOut' = <<>>
    /\ libErr' = "parse"
    /\ lpc' = "resolved"
    /\ UNCHANGED <<libFn, libPage, fetchVars, mainVars>>

\* a catch block that throws the error on to the caller (mutant)
LibCatch_Rethrows ==
    /\ lpc = "fetching"
    /\ fpc = "thrown"
    /\ libErr' = "fetch"
    /\ lpc' = "rejected"
    /\ UNCHANGED <<libFn, libPage, libOut, fetchVars, mainVars>>

\* fetchWithRetry threw: catch (error) { ...; return []; }
LibCatch ==
    /\ lpc = "fetching"
    /\ fpc = "thrown"
    /\ libOut' = <<>>
    /\ libErr' = "fetch"
    /\ lpc' = "resolved"
    /\ UNCHANGED <<libFn, libPage, fetchVars, mainVars>>

\* one call of an exported function: fetchWithRetry(FAB_URL), then the parse
InitLib ==
    /\ FetchInit
    /\ maxRetries = DefaultMaxRetries
    /\ libFn \in LibFns
    /\ lpc = "fetching"
    /\ libPage = <<>>
    /\ libOut = <<>>
    /\ libErr = "none"
    /\ MainIdle

NextLib ==
    \/ FetchStep
    \/ LibResolve
    \/ LibLoadThrows
    \/ LibCatch

SpecLib == InitLib /\ [][NextLib]_vars

-----------------------------------------------------------------------------
(* src/scraper.js: the helpers *)

\* the month lengths of a common year
MonthDays == <<31, 28, 31, 30, 31, 30, 31, 31, 30, 31, 30, 31>>

IsLeap(y) == (y % 4 = 0 /\ y % 100 # 0) \/ y % 400 = 0

\* days from 1 January of year 0 to 1 January of year y
DaysBeforeYear(y) ==
    365 * y + ((y + 3) \div 4) - ((y + 99) \div 100) + ((y + 399) \div 400)

RECURSIVE DaysBeforeMonth(_, _)
DaysBeforeMonth(y, m0) ==
    IF m0 = 0 THEN 0
    ELSE DaysBeforeMonth(y, m0 - 1) + MonthDays[m0] + (IF m0 = 2 /\ IsLeap(y) THEN 1 ELSE 0)

\* new Date(anio, monthIndex, dia) as a day number: a two-digit year counts
\* from 1900, months and days out of range roll over
DateValue(anio, monthIndex, dia) ==
    LET full == IF anio >= 0 /\ anio <= 99 THEN 1900 + anio ELSE anio
        y == full + (monthIndex \div 12)
        m0 == monthIndex % 12
    IN  DaysBeforeYear(y) + DaysBeforeMonth(y, m0) + dia

\* function parseFecha(fechaStr): an invalid Date is NaN
parseFecha(fechaStr) ==
    LET parts == split(fechaStr, "/")
        n == [i \in 1..Len(parts) |-> Number(parts[i])]
    IN  IF Len(parts) < 3 THEN NaN
        ELSE IF n[1].nan \/ n[2].nan \/ n[3].nan THEN NaN
        ELSE Num(DateValue(n[3].val, n[2].val - 1, n[1].val))

\* [^a-z0-9-] is removed
IsFileNameChar(c) == c \in Range(LowerLetters) \cup Range(DigitChars) \cup {"-"}

\* function normalizarNombreEquipo(equipo)
normalizarNombreEquipo(equipo) ==
    SelectSeq(ReplaceSpaceRuns(StripDiacritics(toLowerCase(equipo)), <<"-">>),
              IsFileNameChar)

\* the text before the first occurrence of the pattern: s.split(pat)[0]
RECURSIVE BeforeFirst(_, _)
BeforeFirst(s, pat) ==
    IF Len(s) < Len(pat) THEN s
    ELSE IF SubSeq(s, 1, Len(pat)) = pat THEN <<>>
    ELSE <<Head(s)>> \o BeforeFirst(Tail(s), pat)

\* s without its trailing white space
RECURSIVE trimEnd(_)
trimEnd(s) ==
    IF s # <<>> /\ IsSpace(s[Len(s)]) THEN trimEnd(SubSeq(s, 1, Len(s) - 1)) ELSE s

\* competicion.match(/\s([AB])\s*$/): ' A', ' B' or ''
Sufijo(competicion) ==
    LET t == trimEnd(competicion)
        n == Len(t)
    IN  IF n >= 2 /\ t[n] \in {"A", "B"} /\ IsSpace(t[n - 1])
        THEN <<" ", t[n]>>
        ELSE <<>>

\* function generarNombreEquipo(categoria, competicion)
generarNombreEquipo(categoria, competicion) ==
    trim(BeforeFirst(categoria, <<" ", "-", " ">>)) \o Sufijo(competicion)

TxtAdesaId == <<"a","d","e","s","a","_","8","0">>
TxtUndefined == <<"u","n","d","e","f","i","n","e","d">>

\* function generarId(partido)
generarId(partido) ==
    LET local == IF partido.ubicacion = "Local" THEN TxtAdesaId ELSE partido.rival
        visitante == IF partido.ubicacion = "Visitante" THEN TxtAdesaId ELSE partido.rival
    IN  RemoveAll(
          toLowerCase(
            StripDiacritics(
              ReplaceSpaceRuns(
                Join(<<partido.fecha, local, visitante, partido.categoria>>, <<"_">>),
                <<"_">>))),
          TxtUndefined)

-----------------------------------------------------------------------------
(* src/scraper.js: page.evaluate in scrapePartidos.  A fila is one tbody tr *)
(* together with the two headers it sits under: the h4 of its competition  *)
(* (.pestana-desplegable) and of its category (.pestana-subdesplegable),   *)
(* Null when the header has no h4, and whether each header's capa_         *)
(* container exists.                                                       *)

\* 'ADESA 80'
ClubText == <<"A","D","E","S","A"," ","8","0">>

TxtDescansa == <<"D","E","S","C","A","N","S","A">>

\* the inner HTML of the first <strong> of a cell, or Null
StrongInner(cell) ==
    IF \A i \in 1..Len(cell) : cell[i] # "<strong>" THEN Null
    ELSE LET a == CHOOSE i \in 1..Len(cell) :
                    cell[i] = "<strong>" /\ \A j \in 1..(i - 1) : cell[j] # "<strong>"
             b == CHOOSE i \in a..Len(cell) :
                    cell[i] = "</strong>" /\ \A j \in a..(i - 1) : cell[j] # "</strong>"
         IN  SubSeq(cell, a + 1, b - 1)

\* the score read from the first character of the cell only (mutant)
Marcador_UnDigito(puntosText) ==
    IF puntosText # <<>> /\ ~parseInt(<<Head(puntosText)>>).nan
    THEN IntToText(parseInt(<<Head(puntosText)>>).val)
    ELSE Null

\* text && !isNaN(parseInt(text)) ? String(parseInt(text)) : null
Marcador(puntosText) ==
    IF puntosText # <<>> /\ ~parseInt(puntosText).nan
    THEN IntToText(parseInt(puntosText).val)
    ELSE Null

\* esResultado with `||` in place of `&&` (mutant)
EsResultado_Either(marcadorLocal, marcadorVisitante) ==
    marcadorLocal # Null \/ marcadorVisitante # Null

\* const esResultado = marcadorLocal !== null && marcadorVisitante !== null
EsResultado(marcadorLocal, marcadorVisitante) ==
    marcadorLocal # Null /\ marcadorVisitante # Null

\* localText.includes('ADESA 80')
EsDelClub(teamText) == includes(teamText, ClubText)

\* the name of a header: h4.textContent...trim(), and '' without an h4
HeaderName(h4) == IF h4 = Null THEN <<>> ELSE trim(text(h4))

\* lines 261-264: the competition's suffix is added to the category name
\* unless the name already contains the letter
CategoriaNombre(fila) ==
    LET nombre == HeaderName(fila.categoria)
        sufijo == Sufijo(HeaderName(fila.competicion))
    IN  IF sufijo # <<>> /\ ~includes(nombre, trim(sufijo))
        THEN nombre \o sufijo
        ELSE nombre

\* lines 270-271
EquipoActual(fila) ==
    trim(BeforeFirst(CategoriaNombre(fila), <<" ", "-", " ">>))
        \o Sufijo(HeaderName(fila.competicion))

\* a header without h4, with an empty name or without container: its rows
\* are never visited
FilaVisitada(fila) ==
    /\ HeaderName(fila.competicion) # <<>>
    /\ fila.compCapa
    /\ HeaderName(fila.categoria) # <<>>
    /\ fila.catCapa

\* the record pushed for a row: lines 297-375
Partido(fila) ==
    LET celdas == fila.celdas
        localText == trim(text(celdas[1]))
        visitanteText == trim(text(celdas[4]))
        adesaEsLocal == EsDelClub(localText)
        marcadorLocal == Marcador(trim(text(celdas[2])))
        marcadorVisitante == Marcador(trim(text(celdas[3])))
        inner == StrongInner(celdas[5])
        partes == IF inner = Null THEN <<>> ELSE split(inner, BR)
    IN  [categoria |-> CategoriaNombre(fila),
         competicion |-> HeaderName(fila.competicion),
         equipo |-> EquipoActual(fila),
         rival |-> IF adesaEsLocal THEN visitanteText ELSE localText,
         ubicacion |-> IF adesaEsLocal THEN "Local" ELSE "Visitante",
         marcador_local |-> marcadorLocal,
         marcador_visitante |-> marcadorVisitante,
         fecha |-> IF inner = Null THEN <<>> ELSE trim(partes[1]),
         hora |-> IF Len(partes) > 1 THEN trim(partes[2]) ELSE <<>>,
         pabellon |-> trim(text(celdas[6])),
         es_resultado |-> EsResultado(marcadorLocal, marcadorVisitante)]

\* filas.forEach callback: lines 290-376
FilaProduce(fila) ==
    /\ FilaVisitada(fila)
    /\ Len(fila.celdas) >= 6
    /\ \/ EsDelClub(trim(text(fila.celdas[1])))
       \/ EsDelClub(trim(text(fila.celdas[4])))

ScrapeFila(resultados, fila) ==
    IF FilaProduce(fila) THEN Append(resultados, Partido(fila)) ELSE resultados

\* a row whose header was skipped is pushed with the category and team
\* of the row before it (mutant)
Evaluate_Arrastra(page) ==
    LET Paso2(acc, fila) ==
            IF FilaProduce(fila)
            THEN [res |-> Append(acc.res, Partido(fila)), ult |-> <<fila>>]
            ELSE IF /\ ~FilaVisitada(fila)
                    /\ acc.ult # <<>>
                    /\ Len(fila.celdas) >= 6
                    /\ \/ EsDelClub(trim(text(fila.celdas[1])))
                       \/ EsDelClub(trim(text(fila.celdas[4])))
            THEN [res |-> Append(acc.res,
                                 Partido([fila EXCEPT
                                            !.competicion = acc.ult[1].competicion,
                                            !.categoria = acc.ult[1].categoria])),
                  ult |-> acc.ult]
            ELSE acc
    IN  FoldLeft(Paso2, [res |-> <<>>, ult |-> <<>>], page).res

\* what page.evaluate returns for a page
Evaluate(page) == FoldLeft(ScrapeFila, <<>>, page)

-----------------------------------------------------------------------------
(* src/scraper.js: guardarPartidosPorEquipo *)

\* the comparator of the sort, fechaB - fechaA; Array.prototype.sort reads
\* a NaN result as 0
Comparar(a, b) ==
    LET fechaA == parseFecha(a.fecha)
        fechaB == parseFecha(b.fecha)
    IN  IF fechaA.nan \/ fechaB.nan THEN 0 ELSE fechaB.val - fechaA.val

\* Array.prototype.sort as Node runs it on a short array: the leading run
\* is found (and reversed when strictly descending), then every later item
\* is put in place by binary insertion.  Positions are counted from 0.
RECURSIVE RunEnd(_, _, _)
RunEnd(arr, idx, descending) ==
    IF idx >= Len(arr) THEN idx
    ELSE LET order == Comparar(arr[idx + 1], arr[idx])
         IN  IF (descending /\ order >= 0) \/ (~descending /\ order < 0)
             THEN idx
             ELSE RunEnd(arr, idx + 1, descending)

Reverse(s) == [i \in 1..Len(s) |-> s[Len(s) + 1 - i]]

RECURSIVE InsertionPoint(_, _, _, _)
InsertionPoint(arr, pivot, left, right) ==
    IF left >= right THEN left
    ELSE LET mid == left + ((right - left) \div 2)
         IN  IF Comparar(pivot, arr[mid + 1]) < 0
             THEN InsertionPoint(arr, pivot, left, mid)
             ELSE InsertionPoint(arr, pivot, mid + 1, right)

RECURSIVE BinaryInsertionSort(_, _)
BinaryInsertionSort(arr, start) ==
    IF start >= Len(arr) THEN arr
    ELSE LET pivot == arr[start + 1]
             left == InsertionPoint(arr, pivot, 0, start)
         IN  BinaryInsertionSort(
                 SubSeq(arr, 1, left) \o <<pivot>> \o SubSeq(arr, left + 1, start)
                     \o SubSeq(arr, start + 2, Len(arr)),
                 start + 1)

\* partidosEquipo.sort((a, b) => fechaB - fechaA)
Ordenar(arr) ==
    IF Len(arr) < 2 THEN arr
    ELSE LET descending == Comparar(arr[2], arr[1]) < 0
             run == RunEnd(arr, 2, descending)
             made == IF descending
                     THEN Reverse(SubSeq(arr, 1, run)) \o SubSeq(arr, run + 1, Len(arr))
                     ELSE arr
         IN  BinaryInsertionSort(made, run)

\* the id is set and a rest day keeps its scores (mutant)
Preparar_SinAjuste(partido) ==
    [c \in DOMAIN partido \cup {"id"} |->
        IF c = "id" THEN generarId(partido) ELSE partido[c]]

\* the rest-day adjustment also blanking the date, after the id was set
\* (mutant)
Preparar_SinFecha(partido) ==
    LET conId == [c \in DOMAIN partido \cup {"id"} |->
                    IF c = "id" THEN generarId(partido) ELSE partido[c]]
    IN  IF partido.rival = TxtDescansa
        THEN [conId EXCEPT !.marcador_local = Null,
                           !.marcador_visitante = Null,
                           !.es_resultado = FALSE,
                           !.fecha = <<>>]
        ELSE conId

\* lines 86-94: the id is set, and a rest day loses its scores
Preparar(partido) ==
    LET conId == [c \in DOMAIN partido \cup {"id"} |->
                    IF c = "id" THEN generarId(partido) ELSE partido[c]]
    IN  IF partido.rival = TxtDescansa
        THEN [conId EXCEPT !.marcador_local = Null,
                           !.marcador_visitante = Null,
                           !.es_resultado = FALSE]
        ELSE conId

TxtSinEquipo == <<"s","i","n","-","e","q","u","i","p","o">>
TxtJson == <<".","j","s","o","n">>

\* partido.equipo || 'sin-equipo'
NombreEquipo(partido) == IF partido.equipo = <<>> THEN TxtSinEquipo ELSE partido.equipo

\* the keys of partidosPorEquipo in insertion order (no team name here is
\* an array index, which Object.entries would list first)
RECURSIVE Equipos(_)
Equipos(lista) ==
    IF lista = <<>> THEN <<>>
    ELSE LET antes == Equipos(SubSeq(lista, 1, Len(lista) - 1))
             nombre == NombreEquipo(lista[Len(lista)])
         IN  IF nombre \in Range(antes) THEN antes ELSE Append(antes, nombre)

\* partidosPorEquipo[nombreEquipo]
PartidosDe(lista, nombre) ==
    SelectSeq([i \in 1..Len(lista) |-> Preparar(lista[i])],
              LAMBDA q : NombreEquipo(q) = nombre)

NombreArchivo(nombreEquipo) == normalizarNombreEquipo(nombreEquipo) \o TxtJson

\* a write that appends to the file it finds (mutant)
writeFileSync_Append(disk, archivo, contenido) ==
    [a \in DOMAIN disk \cup {archivo} |->
        IF a = archivo
        THEN (IF a \in DOMAIN disk THEN disk[a] ELSE <<>>) \o contenido
        ELSE disk[a]]

\* fs.writeFileSync(rutaArchivo, JSON.stringify(contenido)): the file is
\* created or replaced whole
writeFileSync(disk, archivo, contenido) ==
    [a \in DOMAIN disk \cup {archivo} |-> IF a = archivo THEN contenido ELSE disk[a]]

\* the first n iterations of Object.entries(partidosPorEquipo).forEach
RECURSIVE Guardar(_, _, _)
Guardar(disk, lista, n) ==
    IF n = 0 THEN disk
    ELSE LET nombre == Equipos(lista)[n]
         IN  writeFileSync(Guardar(disk, lista, n - 1),
                           NombreArchivo(nombre),
                           Ordenar(PartidosDe(lista, nombre)))

\* the directory emptied before the files are written (mutant)
guardarPartidosPorEquipo_Vacia(disk, lista) ==
    Guardar(<<>>, lista, Len(Equipos(lista)))

\* function guardarPartidosPorEquipo(partidos), every write succeeding
guardarPartidosPorEquipo(disk, lista) == Guardar(disk, lista, Len(Equipos(lista)))

-----------------------------------------------------------------------------
(* src/scraper.js: the federation pages and the runs of main *)

TxtLiga == <<"L","i","g","a">>
TxtROTA == <<"C","B"," "," ","R","O","T","A">>
Txt0 == <<"0">>
TxtLigaA == <<"L","i","g","a"," ","A">>
TxtCADETE == <<"C","A","D","E","T","E">>
TxtGuiones == <<"1","4","-","0","2","-","2","0","2","6">>

\* a row under the headers of a competition and a category
Fila(competicion, categoria, celdas) ==
    [competicion |-> competicion, compCapa |-> TRUE,
     categoria |-> categoria, catCapa |-> TRUE,
     celdas |-> celdas]

FilaPool ==
    { \* a result, the same game not yet played, and the same game with the
      \* rival's name in another letter case and spacing
      Fila(TxtLiga, TxtCadete, CalRow(TxtADESA80, Txt85, Txt78, TxtRota, TxtD1 \o <<BR>> \o TxtHora)),
      Fila(TxtLiga, TxtCadete, CalRow(TxtADESA80, <<>>, <<>>, TxtRota, TxtD1 \o <<BR>> \o TxtHora)),
      Fila(TxtLiga, TxtCadete, CalRow(TxtADESA80, <<>>, <<>>, TxtROTA, TxtD1)),
      \* another game of the same team, away
      Fila(TxtLiga, TxtCadete, CalRow(TxtRota, <<>>, <<>>, TxtADESA80, TxtD2)),
      \* a game of another team
      Fila(TxtLiga, TxtJunior, CalRow(TxtADESA80, Txt78, Txt85, TxtRota, TxtD1)),
      \* the club's name in another letter case
      Fila(TxtLiga, TxtCadete, CalRow(TxtAdesa80, Txt85, Txt78, TxtRota, TxtD2)),
      \* a rest day whose cells hold points, and a game with one score only
      Fila(TxtLiga, TxtCadete, CalRow(TxtADESA80, Txt0, Txt0, TxtDescansa, TxtD2)),
      Fila(TxtLiga, TxtCadete, CalRow(TxtADESA80, Txt85, <<"-">>, TxtUCA, TxtD2)),
      \* a game without the club, and a row of four cells
      Fila(TxtLiga, TxtCadete, CalRow(TxtRota, Txt85, Txt78, TxtUCA, TxtD1)),
      Fila(TxtLiga, TxtCadete, <<TxtADESA80, Txt85, Txt78, TxtRota>>),
      \* a game under a competition whose name ends in the letter of the team
      Fila(TxtLigaA, TxtCadete, CalRow(TxtRota, <<>>, <<>>, TxtADESA80, TxtD2)),
      \* a game under a category header that has no h4
      Fila(TxtLiga, Null, CalRow(TxtADESA80, <<>>, <<>>, TxtUCA, TxtD2)),
      \* a date cell without <strong>, and a date written with dashes
      Fila(TxtLiga, TxtJunior, <<TxtADESA80, <<>>, <<>>, TxtUCA, TxtD2, TxtPab>>),
      Fila(TxtLiga, TxtJunior, CalRow(TxtADESA80, <<>>, <<>>, TxtUCA, TxtGuiones \o <<BR>> \o TxtHora)),
      \* a game under a category whose name gives the file name of another
      Fila(TxtLiga, TxtCADETE, CalRow(TxtADESA80, <<>>, <<>>, TxtUCA, TxtD1)) }

Pages == SeqsUpTo(FilaPool, MaxFilas)

\* `node scraper.js` is started (by the scheduler or by hand)
StartRun ==
    /\ pc \in {"idle", "exited"}
    /\ runs < MaxRuns
    /\ runs' = runs + 1
    /\ pc' = "start"
    /\ browser' = "none"
    /\ webPage' = <<>>
    /\ partidos' = <<>>
    /\ exitCode' = -1
    /\ mainError' = "none"
    /\ paginaAnterior' = IF pc = "exited" /\ exitCode = 0 /\ Len(partidos) > 0
                         THEN <<webPage>>
                         ELSE <<>>
    /\ UNCHANGED <<files, fetchVars, libVars>>

\* const browser = await puppeteer.launch(...)
Launch ==
    /\ pc = "start"
    /\ browser' = "open"
    /\ pc' = "launched"
    /\ UNCHANGED <<paginaAnterior, runs, mainError, webPage, partidos, files, exitCode, fetchVars, libVars>>

\* puppeteer.launch rejects: main's catch, process.exit(1)
LaunchFails ==
    /\ pc = "start"
    /\ pc' = "exited"
    /\ exitCode' = 1
    /\ mainError' = "launch"
    /\ UNCHANGED <<paginaAnterior, runs, browser, webPage, partidos, files, fetchVars, libVars>>

\* the awaited steps between the launch and page.evaluate
PasoSiguiente(p) ==
    CASE p = "launched" -> "configured"  \* newPage, setUserAgent, setViewport, ...
      [] p = "configured" -> "loaded"    \* page.goto
      [] p = "loaded" -> "waited"        \* the 3 s pause and waitForSelector

Paso ==
    /\ pc \in {"launched", "configured", "loaded"}
    /\ pc' = PasoSiguiente(pc)
    /\ UNCHANGED <<paginaAnterior, runs, mainError, browser, webPage, partidos, files, exitCode, fetchVars, libVars>>

\* a failing step that skips the finally block (mutant)
PasoFalla_Leaks ==
    /\ pc \in {"launched", "configured", "loaded", "waited"}
    /\ pc' = "exited"
    /\ exitCode' = 1
    /\ mainError' = "scrape"
    /\ UNCHANGED <<paginaAnterior, runs, browser, webPage, partidos, files, fetchVars, libVars>>

\* an awaited step inside the try throws: catch rethrows, finally closes
\* the browser, main's catch calls process.exit(1)
PasoFalla ==
    /\ pc \in {"launched", "configured", "loaded", "waited"}
    /\ browser' = "closed"
    /\ pc' = "exited"
    /\ exitCode' = 1
    /\ mainError' = "scrape"
    /\ UNCHANGED <<paginaAnterior, runs, webPage, partidos, files, fetchVars, libVars>>

\* page.evaluate returns the records; finally closes the browser
Scrape ==
    /\ pc = "waited"
    /\ \E page \in Pages :
          /\ webPage' = page
          /\ partidos' = Evaluate(page)
    /\ browser' = "closed"
    /\ pc' = "scraped"
    /\ UNCHANGED <<paginaAnterior, runs, mainError, files, exitCode, fetchVars, libVars>>

\* an empty batch written out as the whole collection (mutant)
SinPartidos_Borra ==
    /\ pc = "scraped"
    /\ Len(partidos) = 0
    /\ files' = <<>>
    /\ pc' = "exited"
    /\ exitCode' = 0
    /\ UNCHANGED <<paginaAnterior, runs, mainError, browser, webPage, partidos, fetchVars, libVars>>

\* if (partidos.length === 0) return
SinPartidos ==
    /\ pc = "scraped"
    /\ Len(partidos) = 0
    /\ pc' = "exited"
    /\ exitCode' = 0
    /\ UNCHANGED <<paginaAnterior, runs, mainError, browser, webPage, partidos, files, fetchVars, libVars>>

\* guardarPartidosPorEquipo(partidos) and the normal end of main
Save ==
    /\ pc = "scraped"
    /\ Len(partidos) > 0
    /\ files' = guardarPartidosPorEquipo(files, partidos)
    /\ pc' = "exited"
    /\ exitCode' = 0
    /\ UNCHANGED <<paginaAnterior, runs, mainError, browser, webPage, partidos, fetchVars, libVars>>

\* a failed write that main swallows, ending like a normal run (mutant)
SaveFails_ExitsZero ==
    /\ pc = "scraped"
    /\ Len(partidos) > 0
    /\ \E n \in 0..(Len(Equipos(partidos)) - 1) :
          files' = Guardar(files, partidos, n)
    /\ pc' = "exited"
    /\ exitCode' = 0
    /\ mainError' = "write"
    /\ UNCHANGED <<paginaAnterior, runs, browser, webPage, partidos, fetchVars, libVars>>

\* a writeFileSync (or the mkdirSync) throws after n files were written:
\* main's catch, process.exit(1)
SaveFails ==
    /\ pc = "scraped"
    /\ Len(partidos) > 0
    /\ \E n \in 0..(Len(Equipos(partidos)) - 1) :
          files' = Guardar(files, partidos, n)
    /\ pc' = "exited"
    /\ exitCode' = 1
    /\ mainError' = "write"
    /\ UNCHANGED <<paginaAnterior, runs, browser, webPage, partidos, fetchVars, libVars>>

Init ==
    /\ MainIdle
    /\ LibIdle
    /\ fpc = "idle"
    /\ attempt = 0
    /\ maxRetries = 0
    /\ requests = <<>>
    /\ waits = <<>>
    /\ fetchErr = NoError

Next ==
    \/ StartRun
    \/ Launch
    \/ LaunchFails
    \/ Paso
    \/ PasoFalla
    \/ Scrape
    \/ SinPartidos
    \/ Save
    \/ SaveFails

Spec == Init /\ [][Next]_vars

-----------------------------------------------------------------------------
(* One run from the return of scrapePartidos on, over pages of one team    *)
(* whose rows differ in their date cell                                    *)

TxtD3 == <<"0","7","/","0","3","/","2","0","2","6">>

OrdenPool ==
    { Fila(TxtLiga, TxtCadete, CalRow(TxtADESA80, Txt85, Txt78, TxtRota, TxtD1)),
      Fila(TxtLiga, TxtCadete, CalRow(TxtADESA80, <<>>, <<>>, TxtUCA, TxtD2)),
      Fila(TxtLiga, TxtCadete, CalRow(TxtRota, <<>>, <<>>, TxtADESA80, TxtD3)),
      \* a date cell without <strong>: fecha is ''
      Fila(TxtLiga, TxtCadete, <<TxtADESA80, <<>>, <<>>, TxtDescansa, TxtD2, TxtPab>>) }

\* scrapePartidos has just returned the records of a page; nothing is on
\* disk yet
InitGuardar ==
    /\ pc = "scraped"
    /\ runs = 1
    /\ browser = "closed"
    /\ webPage \in SeqsUpTo(OrdenPool, MaxOrden)
    /\ partidos = Evaluate(webPage)
    /\ files = <<>>
    /\ exitCode = -1
    /\ mainError = "none"
    /\ paginaAnterior = <<>>
    /\ LibIdle
    /\ fpc = "idle"
    /\ attempt = 0
    /\ maxRetries = 0
    /\ requests = <<>>
    /\ waits = <<>>
    /\ fetchErr = NoError

NextGuardar ==
    \/ SinPartidos
    \/ Save
    \/ SaveFails

SpecGuardar == InitGuardar /\ [][NextGuardar]_vars

-----------------------------------------------------------------------------
(* Claims about the runs of scraper.js *)

\* the places of the persisted records: <<file name, index>>
Places(disk) ==
    UNION {{<<a, i>> : i \in 1..Len(disk[a])} : a \in DOMAIN disk}

At(disk, place) == disk[place[1]][place[2]]

PersistedIds(disk) == {At(disk, q).id : q \in Places(disk)}

\* date, home team, away team and category of a record of scraper.js (the
\* club is the home team when ubicacion is Local)
MatchKey(r) == <<r.fecha, r.rival, r.ubicacion, r.categoria>>

\* the step in which a run ends having written its files
RunSaved == pc = "scraped" /\ pc' = "exited" /\ exitCode' = 0 /\ Len(partidos) > 0

\* C1 (as claimed): the id of a persisted record is still persisted after
\* every later step of the pipeline.
C1_RecordsNeverDeleted ==
    [][PersistedIds(files) \subseteq PersistedIds(files')]_vars

\* C2 (as claimed): after a run that observed a row with the date, teams and
\* category of a record persisted before it, exactly one persisted record has
\* that record's id, and it carries the scores and time of the observed row.
C2_UpdateKeepsOneRecord ==
    [][ RunSaved =>
          \A k \in 1..Len(partidos) : \A old \in Places(files) :
              MatchKey(At(files, old)) = MatchKey(partidos[k]) =>
                  /\ Cardinality({q \in Places(files') :
                                    At(files', q).id = At(files, old).id}) = 1
                  /\ \A q \in Places(files') :
                        At(files', q).id = At(files, old).id =>
                            /\ At(files', q).marcador_local = Preparar(partidos[k]).marcador_local
                            /\ At(files', q).marcador_visitante = Preparar(partidos[k]).marcador_visitante
                            /\ At(files', q).hora = partidos[k].hora ]_vars

\* C3 (as claimed): no team file holds two records with the same id.
C3_IdsUniqueInFile ==
    \A a \in DOMAIN files : \A i, j \in 1..Len(files[a]) :
        files[a][i].id = files[a][j].id => i = j

HasBothScores(r) == r.marcador_local # Null /\ r.marcador_visitante # Null

\* C4: every scraped record and every persisted record is marked as a result
\* exactly when both of its scores are non-null.
C4_ResultIffBothScores ==
    /\ \A k \in 1..Len(partidos) : partidos[k].es_resultado <=> HasBothScores(partidos[k])
    /\ \A q \in Places(files) : At(files, q).es_resultado <=> HasBothScores(At(files, q))

\* reached: a file holds a result, and a rest day whose row held points
C4_Witness ==
    \E q, d \in Places(files) :
        /\ At(files, q).es_resultado
        /\ At(files, d).rival = TxtDescansa
        /\ ~At(files, d).es_resultado
        /\ \E k \in 1..Len(partidos) :
              /\ partidos[k].rival = TxtDescansa
              /\ partidos[k].es_resultado

\* the ids persisted as not finished, and those persisted only as finished
UnfinishedIds(disk) == {At(disk, q).id : q \in {x \in Places(disk) : ~At(disk, x).es_resultado}}

FinishedIds(disk) == PersistedIds(disk) \ UnfinishedIds(disk)

\* C5 (as claimed): an id persisted as finished is never persisted by a
\* later step as not finished.
C5_ResultNeverReverts ==
    [][FinishedIds(files) \cap UnfinishedIds(files') = {}]_vars

\* C6 (as claimed): the records one run of scrapePartidos returns have
\* pairwise different (date, home, away, category).
C6_NoDuplicateKeys ==
    pc = "scraped" =>
        \A i, j \in 1..Len(partidos) :
            MatchKey(partidos[i]) = MatchKey(partidos[j]) => i = j

\* the rows a filter on 'ADESA 80' in any letter case would keep
DebeQuedar(fila) ==
    /\ FilaVisitada(fila)
    /\ Len(fila.celdas) >= 6
    /\ \/ includes_AnyCase(trim(text(fila.celdas[1])), ClubText)
       \/ includes_AnyCase(trim(text(fila.celdas[4])), ClubText)

\* C8 (as claimed): scrapePartidos returns a record for exactly the rows
\* whose home or away name contains 'ADESA 80' in any letter case.
C8_FilterAnyCase ==
    pc = "scraped" =>
        LET quedan == SelectSeq(webPage, DebeQuedar)
        IN  partidos = [k \in 1..Len(quedan) |-> Partido(quedan[k])]

-----------------------------------------------------------------------------
(* Claims about the lib functions *)

LibKey(fn, g) == IF fn = "getAllGames" THEN AllGamesKey(g) ELSE FechaTeamsKey(g)

\* the seen-key step of fn applied to an array of its records
Rededup(fn, games) ==
    LET Step(acc, g) == KeepFirst(acc, LibKey(fn, g), <<g>>)
    IN  FoldLeft(Step, EmptyAcc, games).out

\* C7: running the seen-key step (lines 341-345, 229-234, 152-161) over the
\* array a lib function resolved to gives back the same records in the
\* same order.
C7_DedupIdempotent ==
    lpc = "resolved" => Rededup(libFn, libOut) = libOut

\* reached: getAllGames met the same key three times and kept the first
C7_Witness ==
    /\ lpc = "resolved"
    /\ libFn = "getAllGames"
    /\ Len(libPage) = 3
    /\ Len(libOut) = 1
    /\ libOut[1].marcadorLocal = Txt85
    /\ \A i \in 1..3 : LibIsClub(trim(text(libPage[i].celdas[1])))
    /\ libPage[1] # libPage[2]

\* the lib functions keep a row exactly when a name contains 'ADESA' in
\* any letter case (the rows that reach the filter)
LibFilterAnyCase ==
    (lpc = "resolved" /\ libFn = "getAllGames") =>
        \A i \in 1..Len(libPage) :
            LET f == libPage[i]
            IN  (trim(text(f.h4)) # <<>> /\ Len(f.celdas) >= 5) =>
                  ( ( \/ includes_AnyCase(trim(text(f.celdas[1])), LibClubText)
                      \/ includes_AnyCase(trim(text(f.celdas[4])), LibClubText) )
                    <=> \E k \in 1..Len(libOut) :
                          /\ libOut[k].local = trim(text(f.celdas[1]))
                          /\ libOut[k].visitante = trim(text(f.celdas[4]))
                          /\ libOut[k].categoria = trim(text(f.h4)) )

\* the arrays the lib functions resolve to hold no key twice
LibNoDuplicateKeys ==
    lpc = "resolved" =>
        \A i, j \in 1..Len(libOut) :
            LibKey(libFn, libOut[i]) = LibKey(libFn, libOut[j]) => i = j

-----------------------------------------------------------------------------
(* Claims about fetchWithRetry *)

FetchDone == fpc \in {"returned", "thrown"}

\* C9: fetchWithRetry never issues more than maxRetries requests; while it
\* has not ended it has issued fewer than maxRetries, every step it takes
\* issues one more (so it ends after at most maxRetries steps), and it ends
\* either returning a response of status 200 or throwing an error.
C9_FetchTerminates ==
    /\ []( /\ Len(requests) <= maxRetries
           /\ fpc \in {"loop", "returned", "thrown"}
           /\ (fpc = "loop" => Len(requests) < maxRetries /\ fetchErr = NoError)
           /\ (fpc = "returned" =>
                 /\ requests[Len(requests)].status = "200"
                 /\ fetchErr = NoError)
           /\ (fpc = "thrown" => fetchErr # NoError) )
    /\ [][Len(requests') = Len(requests) + 1 /\ ~FetchDone]_vars

\* reached: all maxRetries requests were needed, ending both ways
C9_Witness ==
    /\ maxRetries = 3
    /\ Len(requests) = 3
    /\ fpc = "returned"
    /\ requests[1].status = "403"
    /\ requests[2].status = "error"

\* C10 (as claimed): the request that follows a 403 answer to the plain
\* HTTP request goes through the browser path.
C10_EscalatesAfter403 ==
    [][ ( /\ Len(requests) >= 1
          /\ requests[Len(requests)].status = "403"
          /\ Len(requests') = Len(requests) + 1 )
        => requests'[Len(requests')].via = "browser" ]_vars

\* the request issued by the step, when the step issues one
Issued == requests'[Len(requests')]

\* C11: a request answered 404 or 5xx is the request of the current attempt
\* and ends it; below the retry limit the function waits and is back in the
\* loop with the next attempt still to make and no error raised, and on the
\* last attempt it throws that failure.
C11_NotFoundAndServerErrorRetry ==
    [][ ( /\ Len(requests') = Len(requests) + 1
          /\ Issued.status \in {"404", "5xx"} )
        => /\ Issued.attempt = attempt
           /\ IF attempt < maxRetries
              THEN /\ fpc' = "loop"
                   /\ attempt' = attempt + 1
                   /\ LoopContinues(attempt', maxRetries)
                   /\ fetchErr' = NoError
              ELSE /\ fpc' = "thrown"
                   /\ fetchErr' = Issued.status ]_vars

\* reached: 404 and 5xx were retried, and the 404 of the last attempt was
\* thrown
C11_Witness ==
    /\ maxRetries = 3
    /\ Len(requests) = 3
    /\ requests[1].status = "404"
    /\ requests[2].status = "5xx"
    /\ requests[3].status = "404"
    /\ fpc = "thrown"
    /\ fetchErr = "404"

\* the failure an answer stands for
FailureOf(status) == IF status = "error" THEN "network" ELSE status

\* C12 (as claimed): when fetchWithRetry throws, the error it throws is the
\* failure of its last attempt, whichever kind that was.
C12_ErrorCarriesLastFailure ==
    fpc = "thrown" =>
        /\ Len(requests) >= 1
        /\ fetchErr = FailureOf(requests[Len(requests)].status)

\* C13 (as claimed): every wait is longer than the wait before it.
C13_BackoffIncreases ==
    \A i \in 2..Len(waits) : waits[i] > waits[i - 1]

\* C14: when the first request is answered 403 and the second 200,
\* fetchWithRetry has returned that response without an error, and the
\* exported function that called it goes on to the parse (never to its catch
\* block) and resolves to what the parse of the page gives.
C14_SuccessAfter403 ==
    ( /\ Len(requests) >= 2
      /\ requests[1].status = "403"
      /\ requests[2].status = "200" )
    => /\ Len(requests) = 2
       /\ fpc = "returned"
       /\ fetchErr = NoError
       /\ lpc \in {"fetching", "resolved"}
       /\ (lpc = "fetching" => ENABLED LibResolve /\ ~ENABLED LibCatch)
       /\ (lpc = "resolved" => libOut = LibParse(libFn, libPage))

\* reached: 403, then 200, then a parse that gave records
C14_Witness ==
    /\ Len(requests) = 2
    /\ requests[1].status = "403"
    /\ requests[2].status = "200"
    /\ lpc = "resolved"
    /\ libOut # <<>>

-----------------------------------------------------------------------------
(* Claims about a run of src/scraper.js *)

\* control is back in main: scrapePartidos returned or threw
BackInMain == pc \in {"scraped", "exited"}

\* C15: once scrapePartidos has returned or thrown, no browser is open; a
\* browser is opened only by the launch at the start of a run, when the run
\* has none, and a closed browser is never opened again in that run.
C15_BrowserClosedOnEveryPath ==
    /\ [](BackInMain => browser # "open")
    /\ [][ /\ (browser' = "open" /\ browser # "open")
               => (pc = "start" /\ browser = "none")
           /\ (browser = "closed" /\ browser' # "closed")
               => (runs' = runs + 1 /\ browser' = "none") ]_vars

\* reached: a step after the launch threw and the browser is closed
C15_Witness ==
    /\ pc = "exited"
    /\ mainError = "scrape"
    /\ browser = "closed"

\* C16: a run that has ended has exit code 0 or 1, and the code is 0
\* exactly when nothing threw (records saved, or no records found); a run
\* that has not ended has no exit code.
C16_ExitCodes ==
    /\ pc \in {"idle", "exited"} \/ exitCode = -1
    /\ pc = "exited" =>
          /\ exitCode \in {0, 1}
          /\ exitCode = 0 <=> mainError = "none"

\* reached: a write failed after one team file was written, exit code 1
C16_Witness ==
    /\ pc = "exited"
    /\ mainError = "write"
    /\ exitCode = 1
    /\ runs = 1
    /\ DOMAIN files # {}

\* C17: a run whose scrape returned no record ends with exit code 0 and
\* the team files as they were; the files change only in a step that saves
\* a batch of at least one record.
C17_EmptyBatchLeavesFiles ==
    [][ /\ (pc = "scraped" /\ Len(partidos) = 0 /\ pc' # pc)
            => (files' = files /\ pc' = "exited" /\ exitCode' = 0)
        /\ files' # files => (pc = "scraped" /\ Len(partidos) > 0) ]_vars

\* reached: a second run found no record and the files of the first run
\* are still there
C17_Witness ==
    /\ runs = 2
    /\ pc = "exited"
    /\ exitCode = 0
    /\ Len(partidos) = 0
    /\ DOMAIN files # {}

-----------------------------------------------------------------------------
(* Claims about the rows a parse walks *)

\* a row of getAllGames with the five cells the function asks for
FilaCompleta(f) == Len(f.celdas) >= 5

\* a complete row of the club (any letter case) under a named header
FilaDelClub(f) ==
    /\ FilaCompleta(f)
    /\ trim(text(f.h4)) # <<>>
    /\ \/ includes_AnyCase(trim(text(f.celdas[1])), LibClubText)
       \/ includes_AnyCase(trim(text(f.celdas[4])), LibClubText)

\* category, local, visitor and date of a row of getAllGames
ClaveDeFila(f) ==
    <<trim(text(f.h4)), trim(text(f.celdas[1])), trim(text(f.celdas[4])),
      PartOr(BrParts(f.celdas[5]), 1, <<>>)>>

ClaveDeRegistro(g) == <<g.categoria, g.local, g.visitante, g.fecha>>

ScrapeSkipsShortRows ==
    pc = "scraped" =>
        LET SeisCeldas(f) == Len(f.celdas) >= 6
        IN  partidos = Evaluate(SelectSeq(webPage, SeisCeldas))

\* DD/MM/YYYY: two digits, a slash, two digits, a slash, four digits
FechaEstricta(t) ==
    /\ Len(t) = 10
    /\ \A i \in {1, 2, 4, 5, 7, 8, 9, 10} : IsDigit(t[i])
    /\ t[3] = "/"
    /\ t[6] = "/"

\* C19 (as claimed): every record scrapePartidos returns has a date of the
\* form DD/MM/YYYY.
C19_DatesAreStrict ==
    pc = "scraped" =>
        \A k \in 1..Len(partidos) : FechaEstricta(partidos[k].fecha)

\* the rows of the evaluated page that gave a record, in page order
FilasConRegistro == SelectSeq(webPage, FilaProduce)

-----------------------------------------------------------------------------
(* Claims about the fields of a record *)

\* a cell text that is a whole number: digits and nothing else
EsNumerica(t) == t # <<>> /\ \A i \in 1..Len(t) : IsDigit(t[i])

\* C21: the record of a row whose two point cells are whole numbers is
\* marked as a result, and its marcador_local and marcador_visitante read
\* as numbers are the numbers written in the second and third cell.
C21_NumericScores ==
    pc = "scraped" =>
        /\ Len(partidos) = Len(FilasConRegistro)
        /\ \A k \in 1..Len(partidos) :
              LET pl == trim(text(FilasConRegistro[k].celdas[2]))
                  pv == trim(text(FilasConRegistro[k].celdas[3]))
              IN  (EsNumerica(pl) /\ EsNumerica(pv)) =>
                    /\ partidos[k].es_resultado
                    /\ partidos[k].marcador_local # Null
                    /\ partidos[k].marcador_visitante # Null
                    /\ Number(partidos[k].marcador_local) = Num(DigitsValue(pl))
                    /\ Number(partidos[k].marcador_visitante) = Num(DigitsValue(pv))

\* reached: cells "85" and "78" gave a result of 85 to 78
C21_Witness ==
    /\ pc = "scraped"
    /\ Len(partidos) >= 1
    /\ trim(text(FilasConRegistro[1].celdas[2])) = Txt85
    /\ partidos[1].es_resultado
    /\ Number(partidos[1].marcador_local) = Num(85)
    /\ Number(partidos[1].marcador_visitante) = Num(78)

\* the moment of the run, 18/02/2026, between the two days of the calendar
\* pages (months count from 0)
Ahora == DateValue(2026, 1, 18)

\* the record has no score in one of its two score fields
SinMarcador(r) == r.marcador_local = Null \/ r.marcador_visitante = Null

\* the day of the record is before the moment of the run
YaPasado(r) == ~parseFecha(r.fecha).nan /\ parseFecha(r.fecha).val < Ahora

\* the day of the record is the day of the run or a later day
PorVenir(r) == ~parseFecha(r.fecha).nan /\ parseFecha(r.fecha).val >= Ahora

\* C22 (as claimed): a record without a score is never marked as a result,
\* and what the record says of its state tells a game whose day has passed
\* (in progress) from a game still to come (upcoming).
C22_UpcomingOrInProgress ==
    pc = "scraped" =>
        /\ \A k \in 1..Len(partidos) :
              SinMarcador(partidos[k]) => ~partidos[k].es_resultado
        /\ \A i, j \in 1..Len(partidos) :
              ( /\ SinMarcador(partidos[i]) /\ SinMarcador(partidos[j])
                /\ YaPasado(partidos[i]) /\ PorVenir(partidos[j]) )
              => partidos[i].es_resultado # partidos[j].es_resultado

-----------------------------------------------------------------------------
(* Claims about the team files *)

\* C23: the id of every persisted record is what generarId gives for the
\* record as it is stored, rest days included.
C23_IdRecomputable ==
    \A q \in Places(files) : generarId(At(files, q)) = At(files, q).id

\* reached: a rest day whose row held points is persisted without them
C23_Witness ==
    \E q \in Places(files) :
        /\ At(files, q).rival = TxtDescansa
        /\ At(files, q).marcador_local = Null
        /\ At(files, q).id = generarId(At(files, q))

\* C24 (as claimed): after a run that saved, every record of the scrape is
\* in a team file.
C24_EveryRecordInAFile ==
    [][ RunSaved =>
          \A k \in 1..Len(partidos) :
              \E q \in Places(files') : At(files', q) = Preparar(partidos[k]) ]_vars

\* the names of the files of the teams of a batch
ArchivosDe(lista) ==
    {NombreArchivo(NombreEquipo(lista[k])) : k \in 1..Len(lista)}

\* C25: a step that changes the team files is the save of a batch; it
\* creates or replaces only files of teams of that batch and leaves every
\* other file with the records it had.
C25_OtherFilesUntouched ==
    [][ files' # files =>
          /\ pc = "scraped"
          /\ DOMAIN files' \subseteq DOMAIN files \cup ArchivosDe(partidos)
          /\ \A a \in DOMAIN files \ ArchivosDe(partidos) :
                a \in DOMAIN files' /\ files'[a] = files[a] ]_vars

\* reached: the second run saved one team and the file of another team,
\* written by the first run, is still there
C25_Witness ==
    /\ runs = 2
    /\ pc = "exited"
    /\ exitCode = 0
    /\ Len(partidos) > 0
    /\ DOMAIN files \ ArchivosDe(partidos) # {}

\* C26: a run that saves the records of the page the run before it saved
\* leaves every team file as it was.
C26_SameRowsSameFiles ==
    [][ (RunSaved /\ paginaAnterior = <<webPage>>) => files' = files ]_vars

\* reached: the second run saved the two-row page of the first
C26_Witness ==
    /\ runs = 2
    /\ pc = "exited"
    /\ exitCode = 0
    /\ paginaAnterior = <<webPage>>
    /\ Len(partidos) = 2

-----------------------------------------------------------------------------
(* Claims about the exported functions of the lib *)

\* C27: an exported function is either still running or has resolved, it
\* never rejects; once fetchWithRetry has thrown the function can only go
\* through its catch block, and when the catch block has run, for a failed
\* fetch or a failed load of the page, the function has resolved to the
\* empty array, which is what it resolves to for a page without rows.
C27_LibNeverRejects ==
    /\ lpc \in {"fetching", "resolved"}
    /\ (lpc = "fetching" /\ fpc = "thrown") => (ENABLED LibCatch /\ ~ENABLED LibResolve)
    /\ (lpc = "resolved" /\ fpc = "thrown") => libErr = "fetch"
    /\ (lpc = "resolved" /\ libErr # "none") =>
          /\ libOut = <<>>
          /\ libOut = LibParse(libFn, <<>>)

\* reached: three requests failed and the function resolved to []
C27_Witness ==
    /\ lpc = "resolved"
    /\ libErr = "fetch"
    /\ Len(requests) = 3
    /\ fpc = "thrown"
    /\ libOut = <<>>

-----------------------------------------------------------------------------
(* Claims about the order of a team file *)

\* the date of a record, when its text is a date
FechaValida(r) == ~parseFecha(r.fecha).nan

\* C28 (as claimed): in every team file the records run from the most
\* recent date to the oldest: of two records whose dates can be read, the
\* one that stands first does not have the earlier date.
C28_FilesSortedByDate ==
    \A a \in DOMAIN files :
        \A i, j \in 1..Len(files[a]) :
            (i < j /\ FechaValida(files[a][i]) /\ FechaValida(files[a][j])) =>
                parseFecha(files[a][i].fecha).val >= parseFecha(files[a][j].fecha).val

-----------------------------------------------------------------------------
(* Claims about the team of a record and about rest days *)

\* C29 (as claimed): the equipo of every scraped record is
\* generarNombreEquipo of the name of its category header and the name of
\* its competition header.
C29_TeamNameIsGenerarNombreEquipo ==
    pc = "scraped" =>
        /\ Len(partidos) = Len(FilasConRegistro)
        /\ \A k \in 1..Len(partidos) :
              partidos[k].equipo =
                  generarNombreEquipo(HeaderName(FilasConRegistro[k].categoria),
                                      HeaderName(FilasConRegistro[k].competicion))

\* C30: every persisted record whose rival is DESCANSA has no scores and
\* is not marked as a result.
C30_RestDayHasNoScores ==
    \A q \in Places(files) :
        At(files, q).rival = <<"D","E","S","C","A","N","S","A">> =>
            /\ At(files, q).marcador_local = Null
            /\ At(files, q).marcador_visitante = Null
            /\ ~At(files, q).es_resultado

\* reached: the row of a rest day held the points 0 and 0, the scrape made
\* a result of it, and the record saved has no scores
C30_Witness ==
    /\ pc = "exited"
    /\ exitCode = 0
    /\ \E k \in 1..Len(partidos) :
          /\ partidos[k].rival = TxtDescansa
          /\ partidos[k].es_resultado
          /\ partidos[k].marcador_local = Txt0
          /\ \E q \in Places(files) :
                /\ At(files, q).id = generarId(partidos[k])
                /\ At(files, q).rival = TxtDescansa
                /\ At(files, q).marcador_local = Null
                /\ ~At(files, q).es_resultado

====
